---- MODULE Spec2Model ----
(***************************************************************************)
(* A model of the Minipass stream of src/src/index.ts: the write side, the *)
(* buffer, the flowing / paused / discarded consumption modes, the endish  *)
(* lifecycle, pipes with backpressure, and destroy.                        *)
(*                                                                         *)
(* The stream is single threaded.  Every public call runs to completion,   *)
(* including the listeners it invokes and the calls those listeners make   *)
(* back into the stream, so each method is an operator from a world (a     *)
(* record of every field) to the world after the call, and each action of  *)
(* the specification is one call made by the program using the stream.     *)
(* In async mode the deferred work (defer = Promise.resolve().then) sits   *)
(* in the FIFO queue `jobs`, and the action Tick runs its head.            *)
(***************************************************************************)
EXTENDS Integers, Sequences, FiniteSets, TLC

\* ------------------------------------------------------------------ bounds
\* The number of chunks the producer writes in one behaviour.
MaxWrites == 2

\* The same for the specifications that need three chunks: two buffered
\* behind one that a destination refused.
MaxPipeWrites == 3

\* The number of calls, in one behaviour, whose effect is only to call
\* listeners again: registrations of end, prefinish, finish, close and error
\* listeners, error emissions, and pipe() on an ended stream.
MaxExtra == 2

\* The calls of end() that are counted; further ones are made, not counted.
MaxEnds == 2

\* The same for the specifications about what happens around the chunks:
\* one chunk to buffer, emit or drop.
MaxFewWrites == 1

\* The counted calls of destroy() in one behaviour.
MaxDestroys == 3

\* ------------------------------------------------------- the environment
\* The three payload modes (OBJECTMODE / ENCODING of the constructor).
Modes == {"bytes", "text", "object"}

\* Data listeners.  Each records what it is given; what else it does on a
\* chunk is fixed per listener: nothing, pause(), resume() or a write().
DataHandlers == {"rec", "pauser", "resumer", "writer"}
Script(h) ==
    CASE h = "pauser" -> "pause"
      [] h = "resumer" -> "resume"
      [] h = "writer" -> "write"
      [] h = "adder" -> "add"
      [] OTHER -> "none"

\* Listeners for end, prefinish, finish, close and error: they only record.
EndHandlers == {"e1"}
\* The callback given to end(cb): it only records.
EndCallback == "cb"
\* An end listener that, the first time it is called, adds the end listener
\* Added with on(); Added only records.
Adder == "adder"
Added == "l1"
Endish == {"end", "prefinish", "finish"}
ListenEvents ==
    {"data", "end", "prefinish", "finish", "close", "error", "abort"}

\* Pipe destinations: external writables.
Dests == {"d1", "d2"}

\* What a program can keep a record of: the chunks written and given, the
\* listeners registered and called, what its calls returned or threw.
Records == {"data", "events", "calls"}

\* Bytes.  A byte is 10 * k + kind, k the number of the write it came with:
\* kind 1 is a one-byte character, kind 2 the lead byte of a two-byte
\* character, kind 3 a continuation byte.
Kind(b) == b % 10
Byte(k, kind) == 10 * k + kind
\* Characters of a decoded string: a one-byte character is its byte, a
\* two-byte character 100 * lead + continuation, and 0 is U+FFFD.
Replacement == 0
PairChar(l, t) == 100 * l + t

\* The chunks write number k may carry, by mode.  In object mode <<>> is a
\* falsy object (0, '', null) and a one-element chunk any other object.
Shapes(m, k) ==
    CASE m = "bytes" -> {<< >>, <<Byte(k, 1)>>, <<Byte(k, 1), Byte(k, 1)>>}
      [] m = "text" -> {<< >>, <<Byte(k, 1)>>, <<Byte(k, 2)>>, <<Byte(k, 3)>>}
      [] OTHER -> {<< >>, <<Byte(k, 1)>>}

\* ------------------------------------------------------------- the state
VARIABLES
    mode,           \* OBJECTMODE / ENCODING
    async,          \* ASYNC
    signal,         \* whether a SIGNAL was given to the constructor
    flowing,        \* FLOWING
    paused,         \* PAUSED
    discarded,      \* DISCARDED
    pipes,          \* PIPES: records [dest, end, drain]
    buffer,         \* BUFFER
    bufferLength,   \* BUFFERLENGTH
    dec,            \* DECODER: the bytes of an incomplete character
    eof,            \* EOF
    emittedEnd,     \* EMITTED_END
    emittingEnd,    \* EMITTING_END
    closed,         \* CLOSED
    emittedError,   \* EMITTED_ERROR ("null" when none)
    destroyed,      \* DESTROYED
    aborted,        \* ABORTED
    dataListeners,  \* DATALISTENERS
    writable, readable,
    lis,            \* the EventEmitter's listeners, by event, in order
    jobs,           \* the deferred calls, oldest first
    dst,            \* the destinations: what each was given and answers
    \* what the program using the stream has seen so far
    watch,          \* what the program keeps a record of: a subset of
                    \* Records
    nw,             \* the number of calls of write
    ne,             \* the number of calls of end, up to MaxEnds
    written,        \* the chunks accepted by write, in order
    got,            \* the chunks each data listener was given, in order
    hlog,           \* the registrations and the calls of the listeners
                    \* for end, prefinish, finish, close and error, and
                    \* the counted calls of end
    end2Runs,       \* how many times EMITEND2 ran
    nx,             \* the calls counted against MaxExtra so far
    reent,          \* whether a listener has called write
    early,          \* data listeners attached before the first write, kept
    dropped,        \* the numbers of the writes made while DISCARDED was set
    endPaused,      \* whether end() was first called on a paused stream that
                    \* has been paused ever since
    ret,            \* what the last call returned
    threw,          \* what the last call threw ("none" when nothing)
    hook            \* the close() method a subclass gives the stream:
                    \* "none", "quiet" (emits nothing) or "emits" ('close')

vars == <<mode, async, signal, flowing, paused, discarded, pipes, buffer,
          bufferLength, dec, eof, emittedEnd, emittingEnd, closed,
          emittedError, destroyed, aborted, dataListeners, writable,
          readable, lis, jobs, dst, watch, nw, ne, written, got, hlog,
          end2Runs, nx, reent, early, dropped, endPaused, ret, threw,
          hook>>

\* The world before a call: every variable, with ret and threw cleared.
Cur ==
    [mode |-> mode, async |-> async, signal |-> signal, flowing |-> flowing,
     paused |-> paused, discarded |-> discarded, pipes |-> pipes,
     buffer |-> buffer, bufferLength |-> bufferLength, dec |-> dec,
     eof |-> eof, emittedEnd |-> emittedEnd, emittingEnd |-> emittingEnd,
     closed |-> closed, emittedError |-> emittedError,
     destroyed |-> destroyed, aborted |-> aborted,
     dataListeners |-> dataListeners, writable |-> writable,
     readable |-> readable, lis |-> lis, jobs |-> jobs, dst |-> dst,
     watch |-> watch, nw |-> nw, ne |-> ne, written |-> written, got |-> got, hlog |-> hlog,
     end2Runs |-> end2Runs, nx |-> nx, reent |-> reent, early |-> early,
     dropped |-> dropped, endPaused |-> endPaused,
     hook |-> hook,
     ret |-> "none", threw |-> "none"]

\* The variables after a call are the fields of the world it returns.  What
\* the program keeps no record of stays as it was: the stream's own state
\* does not depend on it.
Commit(w) ==
    /\ mode' = w.mode /\ async' = w.async /\ signal' = w.signal
    /\ flowing' = w.flowing /\ paused' = w.paused
    /\ discarded' = w.discarded /\ pipes' = w.pipes /\ buffer' = w.buffer
    /\ bufferLength' = w.bufferLength /\ dec' = w.dec /\ eof' = w.eof
    /\ emittedEnd' = w.emittedEnd /\ emittingEnd' = w.emittingEnd
    /\ closed' = w.closed /\ emittedError' = w.emittedError
    /\ destroyed' = w.destroyed /\ aborted' = w.aborted
    /\ dataListeners' = w.dataListeners /\ writable' = w.writable
    /\ readable' = w.readable /\ lis' = w.lis /\ jobs' = w.jobs
    /\ watch' = w.watch /\ nw' = w.nw /\ end2Runs' = w.end2Runs
    /\ nx' = w.nx /\ hook' = w.hook
    /\ dst' = IF "data" \in watch THEN w.dst
              ELSE [d \in DOMAIN w.dst |->
                      [w.dst[d] EXCEPT !.got = << >>, !.held = 0]]
    /\ written' = IF "data" \in watch THEN w.written ELSE written
    /\ got' = IF "data" \in watch THEN w.got ELSE got
    /\ reent' = IF "data" \in watch THEN w.reent ELSE reent
    /\ early' = IF "data" \in watch THEN w.early ELSE early
    /\ dropped' = IF "data" \in watch THEN w.dropped ELSE dropped
    /\ ne' = IF "events" \in watch THEN w.ne ELSE ne
    /\ hlog' = IF "events" \in watch THEN w.hlog ELSE hlog
    /\ endPaused' = IF "calls" \in watch THEN w.endPaused /\ w.paused
                    ELSE endPaused
    /\ ret' = IF "calls" \in watch THEN w.ret ELSE ret
    /\ threw' = IF "calls" \in watch THEN w.threw ELSE threw

\* ------------------------------------------------------ pure helpers
B2S(b) == IF b THEN "true" ELSE "false"

RECURSIVE Flat(_)
\* The concatenation of a sequence of chunks.
Flat(chunks) ==
    IF chunks = << >> THEN << >> ELSE Head(chunks) \o Flat(Tail(chunks))

RECURSIVE DecoderWrite(_, _, _)
\* StringDecoder.write: the characters completed by `bytes` after the pending
\* bytes `pend`, appended to `out`, and the bytes still pending.
DecoderWrite(pend, bytes, out) ==
    IF bytes = << >> THEN [out |-> out, pend |-> pend]
    ELSE LET b == Head(bytes)
             rest == Tail(bytes)
         IN  IF pend = << >>
             THEN CASE Kind(b) = 1 -> DecoderWrite(<< >>, rest, Append(out, b))
                    [] Kind(b) = 2 -> DecoderWrite(<<b>>, rest, out)
                    [] OTHER ->
                        DecoderWrite(<< >>, rest, Append(out, Replacement))
             ELSE CASE Kind(b) = 3 ->
                        DecoderWrite(<< >>, rest,
                                     Append(out, PairChar(pend[1], b)))
                    [] Kind(b) = 2 ->
                        DecoderWrite(<<b>>, rest, Append(out, Replacement))
                    [] OTHER ->
                        DecoderWrite(<< >>, rest,
                                     Append(Append(out, Replacement), b))

\* StringDecoder.end: an incomplete character becomes U+FFFD.
DecoderEnd(pend) == IF pend = << >> THEN << >> ELSE <<Replacement>>

\* The size of a buffered item: 1 in object mode, its length otherwise.
Size(w, chunk) == IF w.mode = "object" THEN 1 ELSE Len(chunk)

RECURSIVE SumSize(_, _)
\* The sum of the sizes of the items of a buffer in mode m.
SumSize(m, items) ==
    IF items = << >> THEN 0
    ELSE (IF m = "object" THEN 1 ELSE Len(Head(items)))
         + SumSize(m, Tail(items))

\* `!data` in emit: outside object mode the data is a Buffer (always truthy)
\* or a string, which is falsy when empty.
Falsy(w, data) == w.mode = "text" /\ data = << >>

\* s without its element at index i.
RemoveAt(s, i) == SubSeq(s, 1, i - 1) \o SubSeq(s, i + 1, Len(s))

\* The index of the last h in s, 0 when there is none.
LastIndex(s, h) ==
    IF \E i \in 1..Len(s) : s[i] = h
    THEN CHOOSE i \in 1..Len(s) :
            s[i] = h /\ \A j \in (i + 1)..Len(s) : s[j] # h
    ELSE 0

\* The index of the first pipe record for destination d, 0 when none.
FindPipe(ps, d) ==
    IF \E i \in 1..Len(ps) : ps[i].dest = d
    THEN CHOOSE i \in 1..Len(ps) :
            ps[i].dest = d /\ \A j \in 1..(i - 1) : ps[j].dest # d
    ELSE 0

\* A deferred call: EMITDATA(data), EMITEND2(), RESUME() or the late call of
\* the error listener h.
Job(k, data, h) == [k |-> k, data |-> data, h |-> h]

\* defer(fn): fn joins the queue of deferred calls.
Defer(w, job) == [w EXCEPT !.jobs = Append(@, job)]

\* ------------------------------------------------------ the destinations
\* dest.write(data): the destination takes the chunk and answers whether it
\* wants more.  `blocked` remembers an answer of false that no drain and no
\* resume() has followed; `bad` a write made while blocked.  Of the other
\* fields, `accept` is the answer the next write gets, `ends` tells who
\* called end(), in order, and `held` the most chunks that a drain of this
\* destination found buffered in a source held by it (HeldBy).
destWrite(w, d, data) ==
    [w EXCEPT !.dst[d] = [@ EXCEPT !.got = Append(@, data),
                                   !.bad = @ \/ w.dst[d].blocked,
                                   !.blocked = @ \/ ~w.dst[d].accept]]

\* dest.end(), called by EMITEND2 through Pipe.end or by pipe()
destEnd(w, d, by) == [w EXCEPT !.dst[d].ends = Append(@, by)]

\* ------------------------------------------------------------ the buffer
BUFFERPUSH(w, chunk) ==
    [w EXCEPT !.bufferLength = @ + Size(w, chunk),
              !.buffer = Append(@, chunk)]

\* The world after the shift; the item shifted is Head(w.buffer).
BUFFERSHIFT(w) ==
    [w EXCEPT !.bufferLength = @ - Size(w, Head(w.buffer)),
              !.buffer = Tail(@)]

\* pause() that leaves DISCARDED as it is.
pause_KeepsDiscarded(w) ==
    [w EXCEPT !.flowing = FALSE, !.paused = TRUE]

pause(w) ==
    [w EXCEPT !.flowing = FALSE, !.paused = TRUE, !.discarded = FALSE]

\* super.removeAllListeners(ev) and the override's bookkeeping; ev = "all"
\* is removeAllListeners() without an argument.
removeAllListeners(w, ev) ==
    LET w1 == [w EXCEPT !.lis = [e \in ListenEvents |->
                                   IF ev = "all" \/ e = ev THEN << >>
                                   ELSE w.lis[e]],
                        !.early = IF ev \in {"all", "data"} THEN {} ELSE @]
    IN  IF ev \in {"data", "all"}
        THEN [w1 EXCEPT !.dataListeners = 0,
                        !.flowing = IF ~w1.discarded /\ Len(w1.pipes) = 0
                                    THEN FALSE ELSE @]
        ELSE w1

\* ------------------------------------- the calls that can reach each other
\* A listener may call back into the stream, so emit, write, RESUME and the
\* rest can reach each other.  They call each other through `call`, which
\* names the method and gives its arguments as a tuple:
\*   call(w, "emit", <<ev, data>>) is w after this.emit(ev, data).
RECURSIVE call(_, _, _)

\* The program has registered the listener h with on().
Registered(w, h) ==
    \E i \in 1..Len(w.hlog) : w.hlog[i].h = h /\ w.hlog[i].via = "on"

\* The record of super.emit('end') calling the listeners L, as on() does
\* when end has been emitted: each records its call.
Replayed(L) ==
    [i \in 1..Len(L) |-> [ev |-> "end", h |-> L[i], via |-> "replay",
                          arg |-> ""]]

\* on('end', h) called by an end listener.  The program notes the
\* registration; when end has been emitted, on() emits it again to every
\* end listener (Adder, which has added its listener by then, only records
\* the call) and removes them all.
onInside(w, h) ==
    [w EXCEPT !.lis["end"] = IF w.emittedEnd THEN << >> ELSE Append(@, h),
              !.hlog = Append(@, [ev |-> "end", h |-> h, via |-> "on",
                                  arg |-> "late"])
                       \o (IF w.emittedEnd
                           THEN Replayed(Append(w.lis["end"], h))
                           ELSE << >>)]

\* What the listener h of the event ev does once it has recorded its call:
\* Adder, called for end, adds the listener Added unless it has already;
\* the others do nothing.
endScript(w, ev, h) ==
    IF ev = "end" /\ Script(h) = "add" /\ ~Registered(w, Added)
    THEN onInside(w, Added) ELSE w

RECURSIVE callAll(_, _, _, _, _, _)
\* The loop of EventEmitter.emit over the listeners L, from the i-th on.  A
\* listener records its call; a data listener then does what its script
\* says: nothing, pause(), resume() or, while the stream takes writes and
\* the producer has chunks left, write(chunk); the end listener Adder adds
\* the listener Added unless it has already.
callAll(w, ev, L, i, data, via) ==
    IF i > Len(L) THEN w
    ELSE
    LET h == L[i]
        w1 == IF ev = "data" THEN [w EXCEPT !.got[h] = Append(@, data)]
              ELSE [w EXCEPT !.hlog =
                      Append(@, [ev |-> ev, h |-> h, via |-> via,
                                 arg |-> IF ev \in {"error", "abort"}
                                        THEN data ELSE ""])]
        w2 == IF ev # "data" THEN endScript(w1, ev, h)
              ELSE CASE Script(h) = "pause" -> pause(w1)
                     [] Script(h) = "resume" -> call(w1, "resume", << >>)
                     [] Script(h) = "write" ->
                            IF /\ w1.nw < MaxWrites /\ ~w1.eof
                               /\ ~w1.destroyed /\ ~w1.aborted
                            THEN call([w1 EXCEPT !.reent = TRUE], "write",
                                      <<(<<Byte(w1.nw + 1, 1)>>)>>)
                            ELSE w1
                     [] OTHER -> w1
    IN  callAll(w2, ev, L, i + 1, data, via)

\* EventEmitter.emit (super.emit): the listeners registered when the emission
\* starts are called in the order they were added; an 'error' nobody listens
\* for is thrown.  `via` tells the record of the call whether it is an
\* emission or the replay made by on().
superEmit(w, ev, data, via) ==
    IF ev \notin ListenEvents THEN [w EXCEPT !.ret = "false"]
    ELSE IF ev = "error" /\ w.lis[ev] = << >>
    THEN [w EXCEPT !.threw = "unhandled error"]
    ELSE [callAll(w, ev, w.lis[ev], 1, data, via)
             EXCEPT !.ret = B2S(Len(w.lis[ev]) > 0)]

\* emit that hands an error to EventEmitter whether or not the stream has a
\* signal.
emit_Unabsorbed(w, ev, data) ==
    IF ev \notin {"error", "close", "DESTROYED"} /\ w.destroyed
    THEN [w EXCEPT !.ret = "false"]
    ELSE IF ev = "data"
    THEN IF w.mode # "object" /\ Falsy(w, data) THEN [w EXCEPT !.ret = "false"]
         ELSE IF w.async
         THEN [Defer(w, Job("EMITDATA", data, "")) EXCEPT !.ret = "true"]
         ELSE call(w, "EMITDATA", <<data>>)
    ELSE IF ev = "end" THEN call(w, "EMITEND", << >>)
    ELSE IF ev = "close"
    THEN LET w1 == [w EXCEPT !.closed = TRUE]
         IN  IF ~w1.emittedEnd /\ ~w1.destroyed THEN [w1 EXCEPT !.ret = "false"]
             ELSE LET w2 == superEmit(w1, "close", << >>, "emit")
                  IN  [removeAllListeners(w2, "close") EXCEPT !.ret = w2.ret]
    ELSE IF ev = "error"
    THEN LET w1 == [w EXCEPT !.emittedError = data]
             w2 == superEmit(w1, "error", data, "emit")
         IN  IF w2.threw # "none" THEN w2
             ELSE [call(w2, "MAYBE_EMIT_END", << >>) EXCEPT !.ret = w2.ret]
    ELSE IF ev \in {"finish", "prefinish"}
    THEN LET w1 == superEmit(w, ev, << >>, "emit")
         IN  [removeAllListeners(w1, ev) EXCEPT !.ret = w1.ret]
    ELSE \* 'resume', and any other event: 'drain', 'readable', DESTROYED
         LET w1 == superEmit(w, ev, data, "emit")
         IN  [call(w1, "MAYBE_EMIT_END", << >>) EXCEPT !.ret = w1.ret]

\* emit(ev, data)
emit(w, ev, data) ==
    IF ev \notin {"error", "close", "DESTROYED"} /\ w.destroyed
    THEN [w EXCEPT !.ret = "false"]
    ELSE IF ev = "data"
    THEN IF w.mode # "object" /\ Falsy(w, data) THEN [w EXCEPT !.ret = "false"]
         ELSE IF w.async
         THEN [Defer(w, Job("EMITDATA", data, "")) EXCEPT !.ret = "true"]
         ELSE call(w, "EMITDATA", <<data>>)
    ELSE IF ev = "end" THEN call(w, "EMITEND", << >>)
    ELSE IF ev = "close"
    THEN LET w1 == [w EXCEPT !.closed = TRUE]
         IN  IF ~w1.emittedEnd /\ ~w1.destroyed THEN [w1 EXCEPT !.ret = "false"]
             ELSE LET w2 == superEmit(w1, "close", << >>, "emit")
                  IN  [removeAllListeners(w2, "close") EXCEPT !.ret = w2.ret]
    ELSE IF ev = "error"
    THEN LET w1 == [w EXCEPT !.emittedError = data]
             w2 == IF ~w1.signal \/ Len(w1.lis["error"]) > 0
                   THEN superEmit(w1, "error", data, "emit")
                   ELSE [w1 EXCEPT !.ret = "false"]
         IN  IF w2.threw # "none" THEN w2
             ELSE [call(w2, "MAYBE_EMIT_END", << >>) EXCEPT !.ret = w2.ret]
    ELSE IF ev \in {"finish", "prefinish"}
    THEN LET w1 == superEmit(w, ev, << >>, "emit")
         IN  [removeAllListeners(w1, ev) EXCEPT !.ret = w1.ret]
    ELSE \* 'resume', and any other event: 'drain', 'readable', DESTROYED
         LET w1 == superEmit(w, ev, data, "emit")
         IN  [call(w1, "MAYBE_EMIT_END", << >>) EXCEPT !.ret = w1.ret]

RECURSIVE pipeWrites(_, _, _)
\* The loop over PIPES of EMITDATA.
pipeWrites(w, i, data) ==
    IF i > Len(w.pipes) THEN w
    ELSE LET d == w.pipes[i].dest
             w1 == destWrite(w, d, data)
         IN  pipeWrites(IF ~w.dst[d].accept THEN pause(w1) ELSE w1,
                        i + 1, data)

EMITDATA(w, data) ==
    LET w1 == pipeWrites(w, 1, data)
        w2 == IF w1.discarded
              THEN [w1 EXCEPT !.ret = "false"]
              ELSE superEmit(w1, "data", data, "emit")
    IN  [call(w2, "MAYBE_EMIT_END", << >>) EXCEPT !.ret = w2.ret]

MAYBE_EMIT_END(w) ==
    IF /\ ~w.emittingEnd /\ ~w.emittedEnd /\ ~w.destroyed
       /\ Len(w.buffer) = 0 /\ w.eof
    THEN LET w1 == call([w EXCEPT !.emittingEnd = TRUE], "emit",
                        <<"end", << >> >>)
             w2 == call(w1, "emit", <<"prefinish", << >> >>)
             w3 == call(w2, "emit", <<"finish", << >> >>)
             w4 == IF w3.closed THEN call(w3, "emit", <<"close", << >> >>)
                   ELSE w3
         IN  [w4 EXCEPT !.emittingEnd = FALSE]
    ELSE w

\* EMITEND that does not note that end has been emitted.
EMITEND_NoLatch(w) ==
    IF w.emittedEnd THEN [w EXCEPT !.ret = "false"]
    ELSE LET w1 == [w EXCEPT !.readable = FALSE]
         IN  IF w1.async
             THEN [Defer(w1, Job("EMITEND2", << >>, "")) EXCEPT !.ret = "true"]
             ELSE call(w1, "EMITEND2", << >>)

EMITEND(w) ==
    IF w.emittedEnd THEN [w EXCEPT !.ret = "false"]
    ELSE LET w1 == [w EXCEPT !.emittedEnd = TRUE, !.readable = FALSE]
         IN  IF w1.async
             THEN [Defer(w1, Job("EMITEND2", << >>, "")) EXCEPT !.ret = "true"]
             ELSE call(w1, "EMITEND2", << >>)

RECURSIVE pipeEnds_All(_, _)
\* The loop that ends every destination, whatever opts.end says.
pipeEnds_All(w, i) ==
    IF i > Len(w.pipes) THEN w
    ELSE LET p == w.pipes[i]
             w1 == [w EXCEPT !.pipes[i].drain = FALSE]
         IN  pipeEnds_All(destEnd(w1, p.dest, "EMITEND2"), i + 1)

RECURSIVE pipeEnds(_, _)
\* The loop `for (const p of this[PIPES]) p.end()`: Pipe.end detaches the
\* record's drain listener and ends the destination if opts.end.
pipeEnds(w, i) ==
    IF i > Len(w.pipes) THEN w
    ELSE LET p == w.pipes[i]
             w1 == [w EXCEPT !.pipes[i].drain = FALSE]
         IN  pipeEnds(IF p.end THEN destEnd(w1, p.dest, "EMITEND2") ELSE w1,
                      i + 1)

RECURSIVE pipeWritesEnd(_, _, _)
\* The loop over PIPES of EMITEND2, for what the decoder still held: the
\* answers of the destinations are not looked at.
pipeWritesEnd(w, i, data) ==
    IF i > Len(w.pipes) THEN w
    ELSE pipeWritesEnd(destWrite(w, w.pipes[i].dest, data), i + 1, data)

EMITEND2(w) ==
    LET data == DecoderEnd(w.dec)
        w0 == [w EXCEPT !.end2Runs = @ + 1,
                        !.dec = IF w.mode = "text" THEN << >> ELSE @]
        w1 == IF w.mode = "text" /\ data # << >>
              THEN LET a == pipeWritesEnd(w0, 1, data)
                   IN  IF ~a.discarded THEN superEmit(a, "data", data, "emit")
                       ELSE a
              ELSE w0
        w2 == pipeEnds(w1, 1)
        w3 == superEmit(w2, "end", << >>, "emit")
    IN  [removeAllListeners(w3, "end") EXCEPT !.ret = w3.ret]

\* A flush that emits one chunk, an `if` where the code has a do-while.
flushLoop_One(w) ==
    IF w.buffer = << >> THEN [w EXCEPT !.threw = "TypeError"]
    ELSE call(BUFFERSHIFT(w), "emit", <<"data", Head(w.buffer)>>)

RECURSIVE flushLoop(_)
\* The do-while of FLUSH: FLUSHCHUNK(BUFFERSHIFT()) while it answers that the
\* stream is flowing and items are left.  Shifting an empty buffer is a
\* TypeError in the code.
flushLoop(w) ==
    IF w.buffer = << >> THEN [w EXCEPT !.threw = "TypeError"]
    ELSE LET w1 == call(BUFFERSHIFT(w), "emit", <<"data", Head(w.buffer)>>)
         IN  IF w1.flowing /\ Len(w1.buffer) > 0 THEN flushLoop(w1) ELSE w1

FLUSH(w, noDrain) ==
    LET w1 == flushLoop(w)
    IN  IF ~noDrain /\ Len(w1.buffer) = 0 /\ ~w1.eof
        THEN call(w1, "emit", <<"drain", << >> >>)
        ELSE w1

RESUME(w) ==
    IF w.destroyed THEN w
    ELSE LET w1 == [w EXCEPT !.discarded =
                                IF w.dataListeners = 0 /\ Len(w.pipes) = 0
                                THEN TRUE ELSE @,
                             !.paused = FALSE,
                             !.flowing = TRUE]
             w2 == call(w1, "emit", <<"resume", << >> >>)
         IN  IF Len(w2.buffer) > 0 THEN call(w2, "FLUSH", <<FALSE>>)
             ELSE IF w2.eof THEN call(w2, "MAYBE_EMIT_END", << >>)
             ELSE call(w2, "emit", <<"drain", << >> >>)

\* The public resume(): a call by the program, which lifts the block that a
\* destination's answer of false had put on writing to it.
resume(w) ==
    call([w EXCEPT !.dst = [d \in Dests |->
                               [w.dst[d] EXCEPT !.blocked = FALSE]]],
         "RESUME", << >>)

\* The tail of write, shared by object mode and the other modes: flush what
\* is buffered, emit or buffer the chunk, emit 'readable', answer FLOWING.
writeTail(w, c) ==
    LET w1 == IF w.flowing /\ w.bufferLength # 0
              THEN call(w, "FLUSH", <<TRUE>>) ELSE w
        w2 == IF w1.flowing THEN call(w1, "emit", <<"data", c>>)
              ELSE BUFFERPUSH(w1, c)
        w3 == IF w2.bufferLength # 0
              THEN call(w2, "emit", <<"readable", << >> >>) ELSE w2
    IN  [w3 EXCEPT !.ret = B2S(w3.flowing)]

\* write(chunk) that looks at EOF before it looks at ABORTED.
write_EofFirst(w, chunk) ==
    LET wc == [w EXCEPT !.nw = @ + 1]
        w0 == [wc EXCEPT !.written = Append(@, chunk)]
        d == DecoderWrite(w0.dec, chunk, << >>)
    IN  IF wc.eof THEN [wc EXCEPT !.threw = "write after end"]
        ELSE IF wc.aborted THEN [wc EXCEPT !.ret = "false"]
        ELSE IF wc.destroyed
        THEN LET e == call(wc, "emit", <<"error", "ERR_STREAM_DESTROYED">>)
             IN  IF e.threw # "none" THEN e ELSE [e EXCEPT !.ret = "true"]
        ELSE IF w0.mode = "object" THEN writeTail(w0, chunk)
        ELSE IF Len(chunk) = 0
        THEN LET w1 == IF w0.bufferLength # 0
                       THEN call(w0, "emit", <<"readable", << >> >>)
                       ELSE w0
             IN  [w1 EXCEPT !.ret = B2S(w1.flowing)]
        ELSE IF w0.mode = "text"
        THEN writeTail([w0 EXCEPT !.dec = d.pend], d.out)
        ELSE writeTail(w0, chunk)

\* write(chunk) that does not look at DESTROYED.
write_Undestroyed(w, chunk) ==
    LET wc == [w EXCEPT !.nw = @ + 1]
        w0 == [wc EXCEPT !.written = Append(@, chunk)]
        d == DecoderWrite(w0.dec, chunk, << >>)
    IN  IF wc.aborted THEN [wc EXCEPT !.ret = "false"]
        ELSE IF wc.eof THEN [wc EXCEPT !.threw = "write after end"]
        ELSE IF w0.mode = "object" THEN writeTail(w0, chunk)
        ELSE IF Len(chunk) = 0
        THEN LET w1 == IF w0.bufferLength # 0
                       THEN call(w0, "emit", <<"readable", << >> >>)
                       ELSE w0
             IN  [w1 EXCEPT !.ret = B2S(w1.flowing)]
        ELSE IF w0.mode = "text"
        THEN writeTail([w0 EXCEPT !.dec = d.pend], d.out)
        ELSE writeTail(w0, chunk)

\* write(chunk) that looks at DESTROYED before it looks at EOF.
write_DestroyedFirst(w, chunk) ==
    LET wc == [w EXCEPT !.nw = @ + 1]
        w0 == [wc EXCEPT !.written = Append(@, chunk)]
        d == DecoderWrite(w0.dec, chunk, << >>)
    IN  IF wc.aborted THEN [wc EXCEPT !.ret = "false"]
        ELSE IF wc.destroyed
        THEN LET e == call(wc, "emit", <<"error", "ERR_STREAM_DESTROYED">>)
             IN  IF e.threw # "none" THEN e ELSE [e EXCEPT !.ret = "true"]
        ELSE IF wc.eof THEN [wc EXCEPT !.threw = "write after end"]
        ELSE IF w0.mode = "object" THEN writeTail(w0, chunk)
        ELSE IF Len(chunk) = 0
        THEN LET w1 == IF w0.bufferLength # 0
                       THEN call(w0, "emit", <<"readable", << >> >>)
                       ELSE w0
             IN  [w1 EXCEPT !.ret = B2S(w1.flowing)]
        ELSE IF w0.mode = "text"
        THEN writeTail([w0 EXCEPT !.dec = d.pend], d.out)
        ELSE writeTail(w0, chunk)

\* write(chunk) of a Buffer (or, in object mode, of any value).  The call is
\* counted, and the chunk joins `written` once it is accepted.
write(w, chunk) ==
    LET wc == [w EXCEPT !.nw = @ + 1]
        w0 == [wc EXCEPT !.written = Append(@, chunk)]
        d == DecoderWrite(w0.dec, chunk, << >>)
    IN  IF wc.aborted THEN [wc EXCEPT !.ret = "false"]
        ELSE IF wc.eof THEN [wc EXCEPT !.threw = "write after end"]
        ELSE IF wc.destroyed
        THEN LET e == call(wc, "emit", <<"error", "ERR_STREAM_DESTROYED">>)
             IN  IF e.threw # "none" THEN e ELSE [e EXCEPT !.ret = "true"]
        ELSE IF w0.mode = "object" THEN writeTail(w0, chunk)
        ELSE IF Len(chunk) = 0
        THEN LET w1 == IF w0.bufferLength # 0
                       THEN call(w0, "emit", <<"readable", << >> >>)
                       ELSE w0
             IN  [w1 EXCEPT !.ret = B2S(w1.flowing)]
        ELSE IF w0.mode = "text"
        THEN writeTail([w0 EXCEPT !.dec = d.pend], d.out)
        ELSE writeTail(w0, chunk)

\* on(ev, handler) that leaves the listener attached after the replay.
on_KeepsListener(w, ev, h) ==
    LET w1 == [w EXCEPT !.lis[ev] = Append(@, h)]
    IN  IF ev = "data"
        THEN LET w2 == [w1 EXCEPT !.discarded = FALSE,
                                  !.dataListeners = @ + 1,
                                  !.early = IF w.nw = 0 THEN @ \cup {h} ELSE @]
             IN  IF Len(w2.pipes) = 0 /\ ~w2.flowing
                 THEN call(w2, "RESUME", << >>) ELSE w2
        ELSE IF ev \in Endish /\ w1.emittedEnd
        THEN superEmit(w1, ev, << >>, "replay")
        ELSE IF ev = "error" /\ w1.emittedError # "null"
        THEN IF w1.async THEN Defer(w1, Job("ERRH", << >>, h))
             ELSE callAll(w1, "error", <<h>>, 1, w1.emittedError, "replay")
        ELSE w1

\* on(ev, handler)
on(w, ev, h) ==
    LET w1 == [w EXCEPT !.lis[ev] = Append(@, h)]
    IN  IF ev = "data"
        THEN LET w2 == [w1 EXCEPT !.discarded = FALSE,
                                  !.dataListeners = @ + 1,
                                  !.early = IF w.nw = 0 THEN @ \cup {h} ELSE @]
             IN  IF Len(w2.pipes) = 0 /\ ~w2.flowing
                 THEN call(w2, "RESUME", << >>) ELSE w2
        ELSE IF ev \in Endish /\ w1.emittedEnd
        THEN removeAllListeners(superEmit(w1, ev, << >>, "replay"), ev)
        ELSE IF ev = "error" /\ w1.emittedError # "null"
        THEN IF w1.async THEN Defer(w1, Job("ERRH", << >>, h))
             ELSE callAll(w1, "error", <<h>>, 1, w1.emittedError, "replay")
        ELSE w1

\* this.<f>(...a) for the methods above.
call(w, f, a) ==
    CASE f = "emit" -> emit(w, a[1], a[2])
      [] f = "EMITDATA" -> EMITDATA(w, a[1])
      [] f = "MAYBE_EMIT_END" -> MAYBE_EMIT_END(w)
      [] f = "EMITEND" -> EMITEND(w)
      [] f = "EMITEND2" -> EMITEND2(w)
      [] f = "FLUSH" -> FLUSH(w, a[1])
      [] f = "RESUME" -> RESUME(w)
      [] f = "resume" -> resume(w)
      [] f = "write" -> write(w, a[1])

\* ------------------------------------------- the other public methods
\* Buffer.concat(list, totalLength): the bytes of the list, cut or filled
\* with zero bytes to totalLength.
ConcatTo(items, n) ==
    LET all == Flat(items)
    IN  [i \in 1..n |-> IF i <= Len(all) THEN all[i] ELSE 0]

\* READ that takes a part of the first chunk and leaves bufferLength as it
\* was.
READ_NoCount(w, n) ==
    LET c == Head(w.buffer)
        whole == w.mode = "object" \/ n = 0 \/ n = Len(c)
        w1 == IF whole THEN BUFFERSHIFT(w)
              ELSE [w EXCEPT !.buffer[1] = SubSeq(c, n + 1, Len(c))]
        chunk == IF whole THEN c ELSE SubSeq(c, 1, n)
        w2 == call(w1, "emit", <<"data", chunk>>)
    IN  IF Len(w2.buffer) = 0 /\ ~w2.eof
        THEN call(w2, "emit", <<"drain", << >> >>)
        ELSE w2

\* READ(n, chunk) with chunk = BUFFER[0]; n = 0 stands for null here, the
\* caller passing `n || null`.
READ(w, n) ==
    LET c == Head(w.buffer)
        whole == w.mode = "object" \/ n = 0 \/ n = Len(c)
        w1 == IF whole THEN BUFFERSHIFT(w)
              ELSE [w EXCEPT !.buffer[1] = SubSeq(c, n + 1, Len(c)),
                             !.bufferLength = @ - n]
        chunk == IF whole THEN c ELSE SubSeq(c, 1, n)
        w2 == call(w1, "emit", <<"data", chunk>>)
    IN  IF Len(w2.buffer) = 0 /\ ~w2.eof
        THEN call(w2, "emit", <<"drain", << >> >>)
        ELSE w2

\* What READ(n, BUFFER[0]) returns: the whole item, or its first n bytes or
\* characters.
Ret(w, n) ==
    IF w.mode = "object" \/ n = 0 \/ n = Len(Head(w.buffer))
    THEN Head(w.buffer) ELSE SubSeq(Head(w.buffer), 1, n)

\* read(n) that gives what is buffered when n is more than that.
read_Clamped(w, a) ==
    IF w.destroyed THEN [w EXCEPT !.ret = "null"]
    ELSE
    LET w0 == [w EXCEPT !.discarded = FALSE]
    IN  IF \/ w0.bufferLength = 0
           \/ (a.given /\ a.n = 0)
        THEN [call(w0, "MAYBE_EMIT_END", << >>) EXCEPT !.ret = "null"]
        ELSE
        LET n == IF w0.mode = "object" \/ ~a.given \/ a.n > w0.bufferLength
                 THEN 0 ELSE a.n
            w1 == IF Len(w0.buffer) > 1 /\ w0.mode # "object"
                  THEN [w0 EXCEPT !.buffer =
                          IF w0.mode = "text" THEN <<Flat(w0.buffer)>>
                          ELSE <<ConcatTo(w0.buffer, w0.bufferLength)>>]
                  ELSE w0
            w2 == READ(w1, n)
        IN  [call(w2, "MAYBE_EMIT_END", << >>)
                EXCEPT !.ret = "chunk",
                       !.hlog = Append(@, [ev |-> "read", h |-> "",
                                           via |-> "call",
                                           arg |-> Ret(w1, n)])]

\* read(n); a.given tells whether n was passed.
read(w, a) ==
    IF w.destroyed THEN [w EXCEPT !.ret = "null"]
    ELSE
    LET w0 == [w EXCEPT !.discarded = FALSE]
    IN  IF \/ w0.bufferLength = 0
           \/ (a.given /\ a.n = 0)
           \/ (a.given /\ a.n > w0.bufferLength)
        THEN [call(w0, "MAYBE_EMIT_END", << >>) EXCEPT !.ret = "null"]
        ELSE
        LET n == IF w0.mode = "object" \/ ~a.given THEN 0 ELSE a.n
            w1 == IF Len(w0.buffer) > 1 /\ w0.mode # "object"
                  THEN [w0 EXCEPT !.buffer =
                          IF w0.mode = "text" THEN <<Flat(w0.buffer)>>
                          ELSE <<ConcatTo(w0.buffer, w0.bufferLength)>>]
                  ELSE w0
            w2 == READ(w1, n)
        IN  [call(w2, "MAYBE_EMIT_END", << >>)
                EXCEPT !.ret = "chunk",
                       !.hlog = Append(@, [ev |-> "read", h |-> "",
                                           via |-> "call",
                                           arg |-> Ret(w1, n)])]

\* off(ev, handler) that recounts the data listeners and leaves FLOWING as
\* it is.
off_KeepsFlowing(w, ev, h) ==
    LET i == LastIndex(w.lis[ev], h)
        w1 == IF i = 0 THEN w
              ELSE [w EXCEPT !.lis[ev] = RemoveAt(@, i)]
    IN  IF ev = "data"
        THEN [w1 EXCEPT !.dataListeners = Len(w1.lis["data"]),
                        !.early = @ \ {h}]
        ELSE w1

\* off(ev, handler): EventEmitter removes the handler's latest registration.
off(w, ev, h) ==
    LET i == LastIndex(w.lis[ev], h)
        w1 == IF i = 0 THEN w
              ELSE [w EXCEPT !.lis[ev] = RemoveAt(@, i)]
    IN  IF ev = "data"
        THEN LET w2 == [w1 EXCEPT !.dataListeners = Len(w1.lis["data"]),
                                  !.early = @ \ {h}]
             IN  IF /\ w2.dataListeners = 0 /\ ~w2.discarded
                    /\ Len(w2.pipes) = 0
                 THEN [w2 EXCEPT !.flowing = FALSE]
                 ELSE w2
        ELSE w1

\* once('end', cb), which registers through on(): what on() does for an end
\* listener.  The wrapper of once takes itself off when it is called, and so
\* do EMITEND2 and on(), which remove every end listener after the call.
onceEnd(w, h) ==
    LET w1 == [w EXCEPT !.lis["end"] = Append(@, h)]
    IN  IF w1.emittedEnd
        THEN removeAllListeners(superEmit(w1, "end", << >>, "replay"), "end")
        ELSE w1

\* end(chunk?, cb?); a.given tells whether a chunk was passed, a.cb is the
\* callback or "none".
end(w, a) ==
    LET w1 == IF a.given THEN call(w, "write", <<a.chunk>>) ELSE w
    IN  IF w1.threw # "none" THEN w1
        ELSE
        LET wc == IF a.cb # "none" THEN onceEnd(w1, a.cb) ELSE w1
            w2 == [wc EXCEPT !.eof = TRUE, !.writable = FALSE]
            w3 == IF w2.flowing \/ ~w2.paused
                  THEN call(w2, "MAYBE_EMIT_END", << >>) ELSE w2
        IN  [w3 EXCEPT !.ret = "this"]

\* pipe(dest, {end: e}) to a destination that is not stdout or stderr, with
\* a plain Pipe record (proxyErrors false).
pipe(w, d, e) ==
    IF w.destroyed THEN w
    ELSE
    LET w1 == [w EXCEPT !.discarded = FALSE]
    IN  IF w1.emittedEnd THEN (IF e THEN destEnd(w1, d, "pipe") ELSE w1)
        ELSE
        LET w2 == [w1 EXCEPT !.pipes =
                      Append(@, [dest |-> d, end |-> e, drain |-> TRUE])]
        IN  IF w2.async THEN Defer(w2, Job("RESUME", << >>, ""))
            ELSE call(w2, "RESUME", << >>)

\* unpipe(dest); Pipe.unpipe detaches the record's drain listener, which
\* leaves with the record.
unpipe(w, d) ==
    LET i == FindPipe(w.pipes, d)
    IN  IF i = 0 THEN w
        ELSE IF Len(w.pipes) = 1
        THEN [w EXCEPT !.flowing = IF w.flowing /\ w.dataListeners = 0
                                   THEN FALSE ELSE @,
                       !.pipes = << >>]
        ELSE [w EXCEPT !.pipes = RemoveAt(@, i)]

\* wc.close(), the method of a subclass, called by destroy() once DESTROYED
\* is set: it records its call, and emits 'close' at once or not at all.
\* The emission is emit's 'close' branch on a destroyed stream: CLOSED is
\* set, the close listeners record their calls and are removed.
close(w) ==
    IF w.hook # "emits"
    THEN [w EXCEPT !.hlog = Append(@, [ev |-> "close()", h |-> "",
                                       via |-> "call", arg |-> ""])]
    ELSE [w EXCEPT !.closed = TRUE, !.lis["close"] = << >>,
                   !.hlog = Append(@, [ev |-> "close()", h |-> "",
                                       via |-> "call", arg |-> ""])
                            \o [i \in 1..Len(w.lis["close"]) |->
                                  [ev |-> "close", h |-> w.lis["close"][i],
                                   via |-> "emit", arg |-> ""]]]

\* destroy that runs its whole body on a stream already destroyed.
destroy_Again(w, er) ==
    LET w0 == [w EXCEPT !.destroyed = TRUE, !.discarded = TRUE,
                        !.buffer = << >>, !.bufferLength = 0]
        w1 == IF w0.hook # "none" /\ ~w0.closed THEN close(w0) ELSE w0
        w2 == IF er # "null" THEN call(w1, "emit", <<"error", er>>)
              ELSE call(w1, "emit", <<"DESTROYED", << >> >>)
    IN  IF w2.threw # "none" THEN w2 ELSE [w2 EXCEPT !.ret = "this"]

\* destroy(er); er = "null" is destroy().
destroy(w, er) ==
    LET w0 == [w EXCEPT !.destroyed = TRUE, !.discarded = TRUE,
                        !.buffer = << >>, !.bufferLength = 0]
        w1 == IF w.destroyed THEN w
              ELSE IF w0.hook # "none" /\ ~w0.closed THEN close(w0) ELSE w0
        w2 == IF er # "null" THEN call(w1, "emit", <<"error", er>>)
              ELSE call(w1, "emit", <<"DESTROYED", << >> >>)
    IN  IF w2.threw # "none" THEN w2 ELSE [w2 EXCEPT !.ret = "this"]

\* ABORT(): the signal given to the constructor fires with the reason r.
ABORT(w, r) ==
    LET w1 == call([w EXCEPT !.aborted = TRUE], "emit", <<"abort", r>>)
    IN  destroy(w1, r)

\* The destination's 'drain' event: the ondrain listener of every pipe record
\* still attached to it calls RESUME.
RECURSIVE drainLoop(_, _, _)
drainLoop(w, ps, d) ==
    IF ps = << >> THEN w
    ELSE drainLoop(IF Head(ps).dest = d /\ Head(ps).drain
                   THEN call(w, "RESUME", << >>) ELSE w,
                   Tail(ps), d)

\* One deferred call run.
runJob(w, j) ==
    CASE j.k = "EMITDATA" -> call(w, "EMITDATA", <<j.data>>)
      [] j.k = "EMITEND2" -> call(w, "EMITEND2", << >>)
      [] j.k = "RESUME" -> call(w, "RESUME", << >>)
      [] OTHER -> callAll(w, "error", <<j.h>>, 1, w.emittedError, "replay")

\* ------------------------------------------------------------ the actions
\* The state the constructor leaves, for every choice of options.
Constructed ==
    /\ mode \in Modes /\ async \in BOOLEAN /\ signal \in BOOLEAN
    /\ watch \in SUBSET Records
    /\ flowing = FALSE /\ paused = FALSE /\ discarded = FALSE
    /\ pipes = << >> /\ buffer = << >> /\ bufferLength = 0 /\ dec = << >>
    /\ eof = FALSE /\ emittedEnd = FALSE /\ emittingEnd = FALSE
    /\ closed = FALSE /\ emittedError = "null" /\ destroyed = FALSE
    /\ aborted = FALSE /\ dataListeners = 0
    /\ writable = TRUE /\ readable = TRUE
    /\ lis = [e \in ListenEvents |-> << >>]
    /\ jobs = << >>
    /\ dst = [d \in Dests |-> [got |-> << >>, ends |-> << >>,
                               accept |-> TRUE, blocked |-> FALSE,
                               bad |-> FALSE, held |-> 0]]
    /\ nw = 0 /\ ne = 0 /\ written = << >> /\ got = [h \in DataHandlers |-> << >>]
    /\ hlog = << >> /\ end2Runs = 0 /\ nx = 0 /\ reent = FALSE
    /\ early = {} /\ dropped = {} /\ endPaused = FALSE
    /\ ret = "none" /\ threw = "none"

\* new Minipass(options): the class itself has no close() method.
Init == Constructed /\ hook = "none"

Piped(d) == \E i \in 1..Len(pipes) : pipes[i].dest = d

\* The world before a call of write: the program notes the call when the
\* stream is discarding what it is given.
Noted ==
    IF discarded /\ ~destroyed
    THEN [Cur EXCEPT !.dropped = @ \cup {nw + 1}] ELSE Cur

\* stream.write(chunk), up to N calls
Writes(N) ==
    /\ nw < N
    /\ \E c \in Shapes(mode, nw + 1) : Commit(call(Noted, "write", <<c>>))

Write == Writes(MaxWrites)

\* The world before a call of end that the program counts and notes.
Counted ==
    LET c == [Cur EXCEPT !.endPaused = IF eof THEN @ ELSE paused]
    IN  IF ne < MaxEnds
        THEN [c EXCEPT !.ne = @ + 1,
                       !.hlog = Append(@, [ev |-> "end", h |-> "", via |-> "call",
                                           arg |-> ""])]
        ELSE c

\* stream.end()
End ==
    \E a \in {[given |-> FALSE, chunk |-> << >>, cb |-> "none"]} :
        Commit(end(Counted, a))

\* stream.end(chunk)
EndChunk ==
    /\ nw < MaxWrites
    /\ \E c \in Shapes(mode, nw + 1) :
          Commit(end(Counted, [given |-> TRUE, chunk |-> c, cb |-> "none"]))

\* stream.end(cb), among the calls of end that are counted
EndCb ==
    /\ ne < MaxEnds
    /\ \E a \in {[given |-> FALSE, chunk |-> << >>, cb |-> EndCallback]} :
        Commit(end(Counted, a))

\* stream.pause()
Pause == \E w \in {Cur} : Commit(pause(w))

\* stream.resume()
Resume == \E f \in {"resume"} : Commit(call(Cur, f, << >>))

\* stream.read() and stream.read(n)
Read ==
    \E a \in {[given |-> FALSE, n |-> 0]}
              \cup {[given |-> TRUE, n |-> n] : n \in 0..(bufferLength + 1)} :
        Commit(read(Cur, a))

\* stream.on('data', h) with h one of the listeners H, not attached yet
OnData(H) ==
    \E h \in H :
        /\ \A i \in 1..Len(lis["data"]) : lis["data"][i] # h
        /\ Commit(on(Cur, "data", h))

\* stream.off('data', h)
OffData ==
    \E i \in 1..Len(lis["data"]) : Commit(off(Cur, "data", lis["data"][i]))

\* stream.on(ev, h) for ev one of the events EV, h not attached to it yet.
\* The program notes the registration, and whether end had been emitted or,
\* for an error listener, the error that had been emitted.
OnOther(EV) ==
    /\ nx < MaxExtra
    /\ \E ev \in EV, h \in EndHandlers :
          /\ \A i \in 1..Len(lis[ev]) : lis[ev][i] # h
          /\ Commit(on([Cur EXCEPT
                          !.nx = @ + 1,
                          !.hlog = Append(@, [ev |-> ev, h |-> h, via |-> "on",
                                              arg |-> IF ev = "error"
                                                      THEN emittedError
                                                      ELSE IF emittedEnd
                                                      THEN "late"
                                                      ELSE "early"])],
                       ev, h))

\* stream.removeAllListeners(ev) and stream.removeAllListeners()
RemoveAll ==
    \E ev \in ListenEvents \cup {"all"} :
        /\ \/ ev = "all" /\ \E e \in ListenEvents : lis[e] # << >>
           \/ ev # "all" /\ lis[ev] # << >>
        /\ Commit(removeAllListeners(Cur, ev))

\* stream.pipe(d, {end: e}) with d one of the destinations D, not piped
\* yet, and e one of E
PipeWith(D, E) ==
    \E d \in D, e \in E :
        /\ ~Piped(d)
        /\ Cardinality({i \in 1..Len(jobs) : jobs[i].k = "RESUME"})
              < Cardinality(Dests)
        /\ emittedEnd => nx < MaxExtra
        /\ Commit(pipe([Cur EXCEPT !.nx = IF emittedEnd THEN @ + 1 ELSE @],
                       d, e))

Pipe(D) == PipeWith(D, BOOLEAN)

\* stream.unpipe(d)
Unpipe == \E d \in Dests : Piped(d) /\ Commit(unpipe(Cur, d))

\* stream.destroy()
Destroy == \E er \in {"null"} : Commit(destroy(Cur, er))

\* stream.destroy(er)
DestroyError ==
    /\ nx < MaxExtra
    /\ Commit(destroy([Cur EXCEPT !.nx = @ + 1], "E1"))

\* stream.emit('error', er), as a subclass or the program does
EmitError ==
    /\ nx < MaxExtra
    /\ Commit(call([Cur EXCEPT !.nx = @ + 1], "emit", <<"error", "E2">>))

\* The signal fires, with the reason "R".
Abort == signal /\ ~aborted /\ Commit(ABORT(Cur, "R"))

\* stream.emit('close')
EmitClose == ~closed /\ Commit(call(Cur, "emit", <<"close", << >> >>))

\* A destination fills up: its next write answers false.
DestFill ==
    \E d \in Dests :
        /\ Piped(d) /\ dst[d].accept
        /\ Commit([Cur EXCEPT !.dst[d].accept = FALSE])

\* The source is paused with chunks buffered, after the destination d, whose
\* pipe record listens for its drain, refused a write.
HeldBy(d) ==
    /\ dst[d].blocked /\ paused /\ ~flowing /\ buffer # << >>
    /\ \E i \in 1..Len(pipes) : pipes[i].dest = d /\ pipes[i].drain

\* A destination has room again and emits 'drain'.
DestDrain ==
    \E d \in Dests :
        /\ Piped(d) /\ ~dst[d].accept
        /\ Commit(drainLoop([Cur EXCEPT !.dst[d].accept = TRUE,
                                        !.dst[d].blocked = FALSE,
                                        !.dst[d].held =
                                            IF HeldBy(d) /\ Len(buffer) > @
                                            THEN Len(buffer) ELSE @],
                            pipes, d))

\* A destination that is not piped emits 'drain': no pipe record listens.
DrainUnpiped ==
    \E d \in Dests :
        /\ ~Piped(d) /\ ~dst[d].accept
        /\ Commit(drainLoop([Cur EXCEPT !.dst[d].accept = TRUE,
                                        !.dst[d].blocked = FALSE],
                            pipes, d))

\* stream.destroy() or stream.destroy(er), noted by the program
DestroyCounted ==
    \E er \in {"null", "E1"} :
        /\ Cardinality({i \in 1..Len(hlog) : hlog[i].ev = "destroy()"})
              < MaxDestroys
        /\ Commit(destroy([Cur EXCEPT !.hlog =
                              Append(@, [ev |-> "destroy()", h |-> "",
                                         via |-> "call", arg |-> er])],
                           er))

\* stream.on('end', Adder), once in a behaviour
OnEndAdder ==
    /\ ~Registered(Cur, Adder)
    /\ Commit(on([Cur EXCEPT !.hlog = Append(@, [ev |-> "end", h |-> Adder,
                                                  via |-> "on",
                                                  arg |-> IF emittedEnd
                                                          THEN "late"
                                                          ELSE "early"])],
                 "end", Adder))

\* The oldest deferred call runs.
Tick ==
    /\ jobs # << >>
    /\ Commit(runJob([Cur EXCEPT !.jobs = Tail(@)], Head(jobs)))

\* --------------------------------------------------- the specifications
\* Every call, with every listener and destination of the environment.
Next ==
    \/ Write \/ End \/ EndChunk \/ EndCb \/ Pause \/ Resume \/ Read
    \/ OnData(DataHandlers) \/ OffData \/ OnOther(ListenEvents \ {"data"})
    \/ RemoveAll \/ Pipe(Dests) \/ Unpipe
    \/ Destroy \/ DestroyError \/ EmitError \/ EmitClose \/ Abort
    \/ DestFill \/ DestDrain \/ DrainUnpiped \/ DestroyCounted \/ OnEndAdder
    \/ Tick

Spec == Init /\ [][Next]_vars

\* The specifications below restrict Next to the calls, listeners and
\* destinations one group of properties is about.

\* Writes, end, pause and resume by the program and by the data listeners.
NextFlow ==
    \/ Write \/ End \/ Pause \/ Resume
    \/ OnData({"rec", "pauser", "resumer"}) \/ Tick

\* A stream without a signal, used by a program that keeps a record of the
\* chunks ...
InitData == Init /\ ~signal /\ watch = {"data"}

\* ... of the listeners ...
InitEvents == Init /\ ~signal /\ watch = {"events"}

\* ... or of nothing.
InitBlind == Init /\ ~signal /\ watch = {}

\* A stream with or without a signal, used by a program that keeps a record
\* of everything.
InitAll == Init /\ watch = Records

\* A stream with a signal, used by a program that keeps a record of the
\* listeners and of what its calls return.
InitSignal == Init /\ signal /\ watch = {"events", "calls"}

SpecFlow == InitData /\ [][NextFlow]_vars

\* The same with a data listener that writes when it is given a chunk.
NextReenter ==
    \/ Write \/ End \/ Pause \/ Resume \/ OnData({"writer", "rec"}) \/ Tick

SpecReenter == InitData /\ [][NextReenter]_vars

\* Everything that puts chunks into the buffer or takes them out, for a
\* program that keeps no record: one data listener, one destination.
NextBuf ==
    \/ Write \/ End \/ EndChunk \/ Pause \/ Resume \/ Read
    \/ OnData({"rec"}) \/ PipeWith({"d1"}, {TRUE})
    \/ Destroy \/ DestFill \/ DestDrain \/ Tick

SpecBuf == InitBlind /\ [][NextBuf]_vars

\* The end of the stream and the listeners for what it emits then.
NextEnd ==
    \/ Write \/ End \/ Pause \/ Resume \/ OnData({"rec"})
    \/ OnOther({"end", "prefinish", "finish", "close"}) \/ EmitClose \/ Tick

SpecEnd == InitEvents /\ [][NextEnd]_vars

\* Pipes to two destinations that fill up and drain, for a program that
\* keeps no record.
NextPipe ==
    \/ Write \/ End \/ Resume \/ Pipe(Dests)
    \/ DestFill \/ DestDrain \/ Tick

SpecPipe == InitBlind /\ [][NextPipe]_vars

\* Pipes to two destinations, attached and detached before and after the
\* end of the stream or its destruction.
NextPipeEnd ==
    \/ Write \/ End \/ Pause \/ Resume \/ Pipe(Dests) \/ Unpipe
    \/ Destroy \/ Tick

SpecPipeEnd == InitBlind /\ [][NextPipeEnd]_vars

\* Three chunks through pipes to destinations that fill up and drain.
NextDrain ==
    \/ Writes(MaxPipeWrites) \/ End \/ PipeWith(Dests, {TRUE})
    \/ DestFill \/ DestDrain \/ Tick

SpecDrain == InitData /\ [][NextDrain]_vars

\* Writes to a stream before and after it is destroyed, with and without a
\* listener for errors.
NextDestroy ==
    \/ Write \/ Destroy \/ DestroyError \/ OnOther({"error"})
    \/ OnData({"rec"}) \/ PipeWith({"d1"}, {TRUE}) \/ Tick

SpecDestroy == InitAll /\ [][NextDestroy]_vars

\* The signal fires on a stream that may have been written to, ended or
\* destroyed, with and without listeners for abort and error.
NextAbort ==
    \/ Write \/ End \/ Pause \/ Destroy \/ OnOther({"abort", "error"})
    \/ OnData({"rec"}) \/ Abort \/ Tick

SpecAbort == InitSignal /\ [][NextAbort]_vars

\* A text stream, written to and ended, with a consumer that collects the
\* data and is attached before, between or after the writes.
InitText == InitData /\ mode = "text"

NextText == Write \/ End \/ EndChunk \/ OnData({"rec"}) \/ Tick

SpecText == InitText /\ [][NextText]_vars

\* An async stream, written to and ended with and without a callback, with
\* a data listener and an end listener, for a program that keeps a record of
\* the chunks and of the listeners.
InitAsync == Init /\ async /\ ~signal /\ watch = {"data", "events"}

NextAsync ==
    \/ Write \/ End \/ EndCb \/ Pause
    \/ OnData({"rec"}) \/ OnOther({"end"}) \/ Tick

SpecAsync == InitAsync /\ [][NextAsync]_vars

\* Errors emitted by the program, by destroy(er) and by a write after
\* destroy(), with an error listener attached before, between or after them.
InitError == Init /\ watch = {"events", "calls"}

NextError ==
    \/ Write \/ Destroy \/ DestroyError \/ EmitError
    \/ OnOther({"error"}) \/ Tick

SpecError == InitError /\ [][NextError]_vars

\* resume() before any consumer, writes, and a data listener or a pipe
\* attached or pause() called afterwards, for a program that keeps a record
\* of the chunks and of what its calls return.
InitDiscard == Init /\ ~signal /\ watch = {"data", "calls"}

NextDiscard ==
    \/ Write \/ Pause \/ Resume \/ OnData({"rec"})
    \/ PipeWith({"d1"}, {TRUE}) \/ Tick

SpecDiscard == InitDiscard /\ [][NextDiscard]_vars

\* Reads of a stream in every state writes, end, pause, resume, a data
\* listener and destroy can bring it to, for a program that keeps a record
\* of what its calls return.
InitRead == Init /\ ~signal /\ watch = {"calls"}

NextRead ==
    \/ Write \/ End \/ Pause \/ Resume \/ Read \/ OnData({"rec"})
    \/ Destroy \/ Tick

SpecRead == InitRead /\ [][NextRead]_vars

\* Writes before and after end(), on a stream that may be destroyed, with
\* and without listeners, for a program that keeps a record of everything.
NextEnded ==
    \/ Write \/ End \/ Destroy \/ OnOther({"error", "end"})
    \/ OnData({"rec"}) \/ Tick

SpecEnded == InitAll /\ [][NextEnded]_vars

\* A turn of the task queue, seen on the queue alone: the oldest deferred
\* call leaves it.  Only Tick takes a call off the queue.
Turn == jobs # << >> /\ jobs' = Tail(jobs)

\* A stream of any mode, written to and ended, with a consumer that only
\* records attached before, between or after the writes.  defer() hands a
\* call to the host's task queue, and the host runs every call it holds:
\* the queue does not stay non-empty forever.
NextLive == Write \/ End \/ EndChunk \/ OnData({"rec"}) \/ Tick

SpecLive == InitData /\ [][NextLive]_vars /\ WF_jobs(Turn)

\* Everything that changes the consumption mode: resume, pause, pipe,
\* unpipe, data listeners added and removed, read and destroy, on a stream
\* that is written to, for a program that keeps no record.
NextModes ==
    \/ Write \/ Pause \/ Resume \/ Read \/ OnData({"rec"}) \/ OffData
    \/ RemoveAll \/ Pipe({"d1"}) \/ Unpipe \/ Destroy
    \/ DestFill \/ DestDrain \/ Tick

SpecModes == InitBlind /\ [][NextModes]_vars

\* destroy() on a stream that is written to and ended, with a data
\* listener, listeners for end and finish and a pipe, for a program that
\* keeps a record of the chunks and of the listeners.
InitSeen == Init /\ ~signal /\ watch = {"data", "events"}

NextDestroyed ==
    \/ Write \/ End \/ Destroy \/ OnData({"rec"})
    \/ OnOther({"end", "finish"}) \/ PipeWith({"d1"}, {TRUE}) \/ Tick

SpecDestroyed == InitSeen /\ [][NextDestroyed]_vars

\* end() on a stream that may be paused, and what happens afterwards:
\* resume, read, a data listener, an error emitted, the signal firing; for a
\* program that keeps a record of what its calls return.
InitCalls == Init /\ watch = {"calls"}

NextPaused ==
    \/ Write \/ End \/ Pause \/ Resume \/ Read \/ OnData({"rec"})
    \/ EmitError \/ Abort \/ Tick

SpecPaused == InitCalls /\ [][NextPaused]_vars

\* A data listener attached and removed, by off and by removeAllListeners,
\* between writes, pauses and resumes.
NextOff ==
    \/ Write \/ Pause \/ Resume \/ OnData({"rec"}) \/ OffData \/ RemoveAll
    \/ Tick

SpecOff == InitData /\ [][NextOff]_vars

\* ------------------------------------------------------- the properties
\* What one decoding of all the bytes gives.
DecodeOnce(bytes) ==
    LET r == DecoderWrite(<< >>, bytes, << >>)
    IN  r.out \o DecoderEnd(r.pend)

\* What the data listener h was given is what was written: the same
\* sequence in object mode, the same concatenation in bytes mode, and the
\* decoding of the concatenation in text mode.
GotAll(h) ==
    CASE mode = "object" -> got[h] = written
      [] mode = "bytes" -> Flat(got[h]) = Flat(written)
      [] OTHER -> Flat(got[h]) = DecodeOnce(Flat(written))

\* The number of the write a byte came with.
WriteNo(b) == b \div 10

\* The bytes of these chunks are in the order of their writes.
InOrder(chunks) ==
    LET s == Flat(chunks)
    IN  \A i, j \in 1..Len(s) : i < j => WriteNo(s[i]) <= WriteNo(s[j])

\* C1: on a stream that is not destroyed, a data listener attached before
\* the first write and never removed has been given, by the time end is
\* emitted, exactly the chunks written, in order, whatever pause() and
\* resume() calls the program and the listeners made (the writes are the
\* program's: a listener that writes is not this property's case).
C1_AllDelivered ==
    \A h \in early : (end2Runs > 0 /\ ~destroyed /\ ~reent) => GotAll(h)

\* C2: every data listener and every pipe destination is given the chunks
\* in the order they were written.
C2_InOrder ==
    mode # "text" =>
        /\ \A h \in DataHandlers : InOrder(got[h])
        /\ \A d \in Dests : InOrder(dst[d].got)

\* C3: in every reachable state bufferLength is the sum of the sizes of the
\* buffered chunks: bytes in bytes mode, characters in text mode, one per
\* chunk in object mode.
C3_BufferLength == bufferLength = SumSize(mode, buffer)

\* C3 witness: one buffered chunk of three bytes, which is what read(1)
\* leaves of two chunks of two bytes that it joined.
C3_Witness ==
    /\ mode = "bytes" /\ Len(buffer) = 1 /\ Len(buffer[1]) = 3
    /\ bufferLength = 3

\* The place of an event in the order end, prefinish, finish, close.
Rank(ev) ==
    CASE ev = "end" -> 1 [] ev = "prefinish" -> 2 [] ev = "finish" -> 3
      [] OTHER -> 4

\* The calls that emissions made of listeners for these four events.
IsEmitted(e) ==
    e.via = "emit" /\ e.ev \in {"end", "prefinish", "finish", "close"}

\* C4: the listeners are called in the order end, prefinish, finish, close,
\* in sync and in async mode: no prefinish, finish or close listener has been
\* called by an emission while the end emission has not been made, and no
\* listener of an earlier event is called after one of a later event.
C4_EndishOrder ==
    /\ \A i \in 1..Len(hlog) :
          (IsEmitted(hlog[i]) /\ hlog[i].ev # "end") => end2Runs > 0
    /\ \A i, j \in 1..Len(hlog) :
          (i < j /\ IsEmitted(hlog[i]) /\ IsEmitted(hlog[j]))
             => Rank(hlog[i].ev) <= Rank(hlog[j].ev)

\* A call that an emission made of an end listener.
EndDelivered(e) == e.ev = "end" /\ e.via = "emit"

\* C8: the end emission is made at most once, however often end() is called:
\* EMITEND2 runs at most once, and the emissions call an end listener at most
\* once.
C8_EndOnce ==
    /\ end2Runs <= 1
    /\ \A i, j \in 1..Len(hlog) :
          (EndDelivered(hlog[i]) /\ EndDelivered(hlog[j])) => i = j

\* C8 witness: end() was called, the end listener was called, and end() was
\* called again.
C8_Witness ==
    \E i, j, k \in 1..Len(hlog) :
        /\ i < j /\ j < k
        /\ hlog[i].via = "call" /\ EndDelivered(hlog[j])
        /\ hlog[k].via = "call"

\* A registration for end, prefinish or finish made after end was emitted.
LateOn(e) == e.via = "on" /\ e.arg = "late" /\ e.ev \in Endish

\* A call of the listener that the registration e is about.
CallOf(e, c) == c.ev = e.ev /\ c.h = e.h /\ c.via \in {"emit", "replay"}

C5_NoWriteWhileBlocked == \A d \in Dests : ~dst[d].bad

\* The destination d was ended by EMITEND2: its pipe record was attached,
\* with opts.end, when end was emitted.
EndedByRecord(d) ==
    \E i \in 1..Len(dst[d].ends) : dst[d].ends[i] = "EMITEND2"

\* C7: the destination of a pipe record that is attached with opts.end when
\* end is emitted has end() called exactly once over the life of the stream,
\* whatever is called afterwards.
C7_EndExactlyOnce ==
    \A d \in Dests : EndedByRecord(d) => Len(dst[d].ends) = 1

\* The calls of end() that this step added for d.
NewEnds(d) == SubSeq(dst'[d].ends, Len(dst[d].ends) + 1, Len(dst'[d].ends))

\* C7, amended: when EMITEND2 runs it calls end() once on the destination of
\* every record then attached with opts.end, for the first time by a record,
\* and on no other; any other call of end() on a destination is made by a
\* pipe() to it after end was emitted, and is one call.
C7_EndOncePerRecord ==
    [][\A d \in Dests :
          /\ Len(dst'[d].ends) >= Len(dst[d].ends)
          /\ SubSeq(dst'[d].ends, 1, Len(dst[d].ends)) = dst[d].ends
          /\ IF end2Runs' > end2Runs
             THEN IF \E i \in 1..Len(pipes') :
                        pipes'[i].dest = d /\ pipes'[i].end
                  THEN NewEnds(d) = <<"EMITEND2">> /\ ~EndedByRecord(d)
                  ELSE NewEnds(d) = << >>
             ELSE \/ NewEnds(d) = << >>
                  \/ /\ NewEnds(d) = <<"pipe">> /\ emittedEnd
                     /\ pipes' = pipes /\ nx' = nx + 1]_vars

\* C7 witness: a destination was ended by EMITEND2 and, after an unpipe,
\* again by a pipe() to it on the ended stream.
C7_Witness ==
    \E d \in Dests : dst[d].ends = <<"EMITEND2", "pipe">> /\ ~Piped(d)

\* The data of the deferred EMITDATA calls, oldest first.
RECURSIVE Deferred(_)
Deferred(js) ==
    IF js = << >> THEN << >>
    ELSE (IF Head(js).k = "EMITDATA" THEN <<Head(js).data>> ELSE << >>)
         \o Deferred(Tail(js))

\* What the destination d was given, followed by what the deferred EMITDATA
\* calls will give it.
Sent(d) == dst[d].got \o Deferred(jobs)

\* The chunks of these that emit('data') passes on: an empty string is not
\* emitted.
RECURSIVE Emitted(_)
Emitted(chunks) ==
    IF chunks = << >> THEN << >>
    ELSE (IF mode = "text" /\ Head(chunks) = << >> THEN << >>
          ELSE <<Head(chunks)>>) \o Emitted(Tail(chunks))

\* s is the beginning of t.
IsPrefix(s, t) == Len(s) <= Len(t) /\ SubSeq(t, 1, Len(s)) = s

\* This step is the drain of destination d.
DrainOf(d) == ~dst[d].accept /\ dst'[d].accept

\* C6: when the source is paused with chunks buffered after a destination
\* refused a write, the drain of that destination resumes the source, and
\* the buffered chunks go to the destination in the order of the buffer:
\* all of them, or the first ones when a destination refuses a write again,
\* which leaves the source paused with the rest still buffered.
C6_DrainDelivers ==
    [][\A d \in Dests :
          (DrainOf(d) /\ HeldBy(d)) =>
              \E k \in 1..Len(buffer) :
                  /\ buffer' = SubSeq(buffer, k + 1, Len(buffer))
                  /\ IsPrefix(Sent(d) \o Emitted(SubSeq(buffer, 1, k)),
                              Sent(d)')
                  /\ k < Len(buffer) => (~flowing' /\ paused')]_vars

\* C6 witness: the drain of a destination found the source held by it with
\* two chunks buffered, and the destination has been given these after the
\* one it refused.
C6_Witness ==
    \E d \in Dests :
        /\ dst[d].held = 2 /\ Len(dst[d].got) = 3 /\ flowing
        /\ dst[d].got = written

\* This step is a call of write on a destroyed stream that has not ended.
WriteDestroyed == nw' = nw + 1 /\ destroyed /\ ~eof /\ ~aborted

\* The step buffers nothing and gives no chunk to a listener or a
\* destination, now or deferred, and notes the error.
NothingWritten ==
    /\ buffer' = buffer /\ bufferLength' = bufferLength
    /\ got' = got /\ \A d \in Dests : dst'[d].got = dst[d].got
    /\ Deferred(jobs') = Deferred(jobs)
    /\ emittedError' = "ERR_STREAM_DESTROYED"

\* The calls of the error listeners that an emission of er makes.
ErrorCalls(er) ==
    [i \in 1..Len(lis["error"]) |->
        [ev |-> "error", h |-> lis["error"][i], via |-> "emit", arg |-> er]]

NewLog == SubSeq(hlog', Len(hlog) + 1, Len(hlog'))

\* The calls of the listeners for ev among these entries.
RECURSIVE CallsFor(_, _)
CallsFor(ev, log) ==
    IF log = << >> THEN << >>
    ELSE (IF Head(log).ev = ev /\ Head(log).via # "on" /\ Head(log).via # "call"
          THEN <<Head(log)>> ELSE << >>) \o CallsFor(ev, Tail(log))

\* The calls of the abort listeners that an emission of abort with r makes.
AbortCalls(r) ==
    [i \in 1..Len(lis["abort"]) |->
        [ev |-> "abort", h |-> lis["abort"][i], via |-> "emit", arg |-> r]]

\* In these entries every call of an abort listener comes before every call
\* of an error listener.
AbortFirst(log) ==
    \A i, j \in 1..Len(log) :
        (log[i].ev = "error" /\ log[j].ev = "abort") => j < i

\* This step is the signal firing.
SignalFires == aborted' /\ ~aborted

\* This step is a call of write on an aborted stream.
WriteAborted == nw' = nw + 1 /\ aborted

\* The write returned false, threw nothing, called no listener, and left
\* the buffer and the deferred calls as they were.
Refused ==
    /\ ret' = "false" /\ threw' = "none" /\ hlog' = hlog
    /\ buffer' = buffer /\ bufferLength' = bufferLength /\ jobs' = jobs
    /\ lis' = lis /\ eof' = eof

\* C11: when the signal fires with the reason R, in any state of the
\* stream, the abort listeners are called with R and then the error
\* listeners with R; aborted and destroyed are true from then on; every
\* later write returns false, throws nothing, emits nothing and buffers
\* nothing, also after end().
C11_Abort ==
    /\ [](aborted => destroyed)
    /\ [][/\ SignalFires =>
               /\ CallsFor("abort", NewLog) = AbortCalls("R")
               /\ CallsFor("error", NewLog) = ErrorCalls("R")
               /\ AbortFirst(NewLog)
          /\ WriteAborted => Refused]_vars

\* C11, amended: the abort listeners are called when the stream was not
\* destroyed before; on a stream that was, the signal calls the error
\* listeners only.
C11_AbortUnlessDestroyed ==
    /\ [](aborted => destroyed)
    /\ [][/\ SignalFires =>
               /\ CallsFor("abort", NewLog)
                     = IF destroyed THEN << >> ELSE AbortCalls("R")
               /\ CallsFor("error", NewLog) = ErrorCalls("R")
               /\ AbortFirst(NewLog)
          /\ WriteAborted => Refused]_vars

\* C11 witness: after end(), the signal called the abort listener and then
\* the error listener with R, and a later write returned false.
C11_Witness ==
    /\ aborted /\ destroyed /\ eof /\ nw > 0 /\ ret = "false"
    /\ \E i \in 1..Len(hlog) :
          /\ i < Len(hlog)
          /\ hlog[i] = [ev |-> "abort", h |-> "e1", via |-> "emit",
                        arg |-> "R"]
          /\ hlog[i + 1] = [ev |-> "error", h |-> "e1", via |-> "emit",
                            arg |-> "R"]

\* The consumer is attached, end() has been called and returned, and no
\* deferred call is left: nothing more will happen by itself.
Settled ==
    /\ eof /\ jobs = << >>
    /\ \E i \in 1..Len(lis["data"]) : lis["data"][i] = "rec"

\* C12: in text mode, once the chunks are written, end() is called and the
\* consumer is attached, before or after the writes, end has been emitted
\* and the consumer has collected the string that one decoding of all the
\* bytes gives, wherever the bytes were split.
C12_SplitDecoding ==
    (mode = "text" /\ Settled) => (end2Runs > 0 /\ GotAll("rec"))

\* C13: once the readable flag is false, no call of the stream and no turn
\* of the task queue delivers a chunk to a data listener.
C13_NoDataUnreadable ==
    [][~readable => got' = got]_vars

\* This step is a call of write() or of end().
WriteOrEnd == nw' # nw \/ ne' # ne

\* C14: on an async stream a call of write() or of end() calls no data
\* listener and no end listener before it returns.
C14_NothingInsideCall ==
    [][(async /\ WriteOrEnd) =>
          (got' = got /\ CallsFor("end", NewLog) = << >>)]_vars

\* close has been requested and put off: end has not been emitted.
ClosePending == closed /\ ~emittedEnd /\ ~destroyed

\* This step is emit('close') on a stream that has not emitted end.
CloseEarly == ~closed /\ closed' /\ ~emittedEnd /\ ~destroyed

\* In these entries every call of an end listener comes before every call
\* of a close listener.
EndFirst(log) ==
    \A i, j \in 1..Len(log) :
        (log[i].ev = "close" /\ log[j].ev = "end") => j < i

\* The calls of the close listeners that one emission of close makes.
CloseCalls ==
    [i \in 1..Len(lis["close"]) |->
        [ev |-> "close", h |-> lis["close"][i], via |-> "emit", arg |-> ""]]

\* C15: emit('close') before end is emitted calls no close listener; the
\* step that then calls the close listeners calls each one once, and has run
\* EMITEND2, which calls the end listeners, before.
C15_CloseAfterEnd ==
    [][/\ CloseEarly => CallsFor("close", NewLog) = << >>
       /\ (ClosePending /\ CallsFor("close", NewLog) # << >>) =>
             /\ end2Runs' > end2Runs
             /\ EndFirst(NewLog)
             /\ CallsFor("close", NewLog) = CloseCalls]_vars

\* This step is on('error', h) after the error er was emitted.
OnErrorAfter(h, er) ==
    /\ er # "null" /\ NewLog # << >>
    /\ NewLog[1] = [ev |-> "error", h |-> h, via |-> "on", arg |-> er]

\* The call that hands the error er to the handler h alone.
Replay(h, er) == <<[ev |-> "error", h |-> h, via |-> "replay", arg |-> er]>>

\* The error that had been emitted when h was attached to error.
RegError(h) ==
    LET i == CHOOSE i \in 1..Len(hlog) :
                 hlog[i].ev = "error" /\ hlog[i].h = h /\ hlog[i].via = "on"
    IN  hlog[i].arg

\* This step runs the deferred call of an error handler.
RunsReplay == jobs # << >> /\ Head(jobs).k = "ERRH" /\ jobs' = Tail(jobs)

\* C16: on('error', h) after an error E was emitted calls h with E before it
\* returns on a sync stream; on an async stream it calls nothing and defers
\* one call, which hands E to h when it runs.
C16_ErrorReplay ==
    [][/\ \A h \in EndHandlers, er \in {"E1", "E2", "ERR_STREAM_DESTROYED"} :
             OnErrorAfter(h, er) =>
                IF async
                THEN /\ CallsFor("error", NewLog) = << >>
                     /\ jobs' = Append(jobs, Job("ERRH", << >>, h))
                ELSE /\ CallsFor("error", NewLog) = Replay(h, er)
                     /\ jobs' = jobs
       /\ RunsReplay =>
             CallsFor("error", NewLog) =
                 Replay(Head(jobs).h, RegError(Head(jobs).h))]_vars

\* This step is emit('error', er) by the program, for er = "E2", or
\* destroy(er), for er = "E1".
ErrorEmitted(er) ==
    /\ nx' = nx + 1 /\ emittedError' = er
    /\ (NewLog = << >> \/ NewLog[1].via # "on")

\* What the call that emitted er returns: emit its answer, destroy the
\* stream.
Answer(er, b) == IF er = "E2" THEN B2S(b) ELSE "this"

WritesOf(chunks) ==
    LET s == Flat(chunks)
    IN  UNION {IF s[i] = Replacement THEN {}
               ELSE IF s[i] >= 100
               THEN {WriteNo(s[i] \div 100), WriteNo(s[i] % 100)}
               ELSE {WriteNo(s[i])} : i \in 1..Len(s)}

\* This step is a write on a stream that is discarding.
WriteDiscarded == nw' = nw + 1 /\ discarded /\ ~destroyed

\* C18: a write on a stream that resume() left discarding returns true and
\* leaves bufferLength 0, and nothing written then is ever given to a data
\* listener or to a destination.
C18_Discards ==
    /\ [][WriteDiscarded => (ret' = "true" /\ bufferLength' = 0)]_vars
    /\ [](/\ \A h \in DataHandlers : WritesOf(got[h]) \cap dropped = {}
          /\ \A d \in Dests : WritesOf(dst[d].got) \cap dropped = {})

\* read(0) and read(n) with n more than what is buffered.
NullReads == {[given |-> TRUE, n |-> 0],
              [given |-> TRUE, n |-> bufferLength + 1]}

\* C19: in every state of a stream that is not destroyed, read(0) and
\* read(n) with n more than bufferLength return null and leave BUFFER and
\* bufferLength as they are.
C19_NullRead ==
    ~destroyed =>
        \A a \in NullReads :
            /\ read(Cur, a).ret = "null" /\ read(Cur, a).threw = "none"
            /\ read(Cur, a).buffer = buffer
            /\ read(Cur, a).bufferLength = bufferLength

\* A read has returned null and left two chunks in the buffer.
C19_Witness ==
    ~destroyed /\ ret = "null" /\ Len(buffer) = 2 /\ bufferLength > 0

\* This step is a call of write after end(), on a stream not aborted.
WriteEnded == nw' = nw + 1 /\ eof /\ ~aborted

\* The step left the stream as it was: the buffer, the flags, the
\* listeners, the pipes and the deferred calls.
Untouched ==
    UNCHANGED <<flowing, paused, discarded, pipes, buffer, bufferLength, dec,
                eof, emittedEnd, emittingEnd, closed, emittedError,
                destroyed, aborted, dataListeners, writable, readable, lis,
                jobs>>

\* C20: a write after end() on a stream that is not aborted throws 'write
\* after end', leaves the stream as it was, calls no listener and gives no
\* destination anything, whether or not the stream is destroyed.
C20_WriteAfterEnd ==
    [][WriteEnded =>
          /\ threw' = "write after end" /\ ret' = "none"
          /\ Untouched
          /\ hlog' = hlog /\ got' = got /\ dst' = dst]_vars

\* A write has thrown on a stream that was ended and then destroyed.
C20_Witness ==
    threw = "write after end" /\ eof /\ destroyed /\ ~aborted

\* end() has been called and the stream flows to the recording listener.
EndedFlowing ==
    /\ eof /\ ~destroyed /\ flowing
    /\ \E i \in 1..Len(lis["data"]) : lis["data"][i] = "rec"

\* C21: once end() has been called and the stream flows to a data listener
\* that never pauses it, the end listeners are eventually called, whatever
\* was written before the listener was attached.
C21_EndEventually == EndedFlowing ~> (end2Runs > 0)

\* C22: bufferLength is 0 exactly when BUFFER holds no item, and outside
\* object mode no item of BUFFER is empty.
C22_NoEmptyItem ==
    /\ (bufferLength = 0) <=> (buffer = << >>)
    /\ mode # "object" => \A i \in 1..Len(buffer) : Len(buffer[i]) > 0

\* C23: flowing and paused are never both true, and discarded is true only
\* while flowing is true and paused is false.
C23_Modes ==
    /\ ~(flowing /\ paused)
    /\ discarded => (flowing /\ ~paused)

\* C23, amended: flowing and paused are never both true; on a stream that
\* is not destroyed discarded is true only while flowing is true and paused
\* is false.
C23_ModesUndestroyed ==
    /\ ~(flowing /\ paused)
    /\ (discarded /\ ~destroyed) => (flowing /\ ~paused)

\* The stream is discarding what it is written, after a pause and a resume
\* with no consumer.
C23_Witness ==
    discarded /\ ~destroyed /\ flowing /\ ~paused /\ nw > 0
    /\ dataListeners = 0 /\ pipes = << >>

\* C24: on a destroyed stream no step, a turn of the task queue included,
\* gives a chunk to a data listener or to a destination, or calls a listener
\* for end, prefinish or finish.
C24_NothingAfterDestroy ==
    [][destroyed =>
          /\ got' = got
          /\ \A d \in Dests : dst'[d].got = dst[d].got
          /\ \A ev \in Endish : CallsFor(ev, NewLog) = << >>]_vars

\* end() has been called on a paused stream, which has been paused ever
\* since, and end is not emitted yet.
PausedAtEnd == endPaused /\ paused /\ eof /\ ~emittedEnd

\* This step is a call of read().
ReadCall == ret' \in {"null", "chunk"}

\* This step is end() without a chunk, the first call of end.
EndCall == ~eof /\ eof' /\ nw' = nw

\* C25: after end() on a paused stream, only a step that resumes the flow
\* (paused is false after it) or a read() emits end; end() itself emits end
\* at once on a stream that is not paused and has nothing buffered, and
\* emits nothing on a paused stream.
C25_PausedHoldsEnd ==
    [][/\ (PausedAtEnd /\ emittedEnd') => (~paused' \/ ReadCall)
       /\ (EndCall /\ paused) => ~emittedEnd'
       /\ (EndCall /\ ~paused /\ ~destroyed /\ buffer = << >>) =>
             emittedEnd']_vars

\* This step takes the last data listener off a stream that has no pipe and
\* is not discarding.
LastListenerOff ==
    /\ lis["data"] # << >> /\ lis'["data"] = << >>
    /\ pipes = << >> /\ ~discarded /\ ~destroyed

\* This step is a write on a stream that is not flowing.
WriteHeld == nw' = nw + 1 /\ ~flowing /\ ~destroyed /\ ~eof /\ ~aborted

\* What BUFFER holds after a write of chunk c that was buffered.
Pushed(c) ==
    CASE mode = "object" -> Append(buffer, c)
      [] mode = "bytes" -> IF c = << >> THEN buffer ELSE Append(buffer, c)
      [] OTHER -> IF c = << >> THEN buffer
                  ELSE Append(buffer, DecoderWrite(dec, c, << >>).out)

\* This step attaches the data listener h to a stream that is not flowing
\* and has no other consumer.
NextConsumer(h) ==
    /\ lis["data"] = << >> /\ lis'["data"] = <<h>>
    /\ pipes = << >> /\ ~flowing /\ ~destroyed

\* C26: taking the last data listener off a stream with no pipe that is not
\* discarding stops the flow; a write on the stream that does not flow is
\* buffered, not emitted; the next data listener attached is given, at once
\* or by deferred calls, the chunks buffered, in order, after what was
\* deferred before; a listener is given the chunks in write order.
C26_OffBuffers ==
    /\ [][/\ LastListenerOff => ~flowing'
          /\ WriteHeld =>
                /\ buffer' = Pushed(written'[Len(written')])
                /\ got' = got /\ jobs' = jobs
          /\ \A h \in DataHandlers :
                NextConsumer(h) =>
                   /\ buffer' = << >> /\ flowing'
                   /\ Flat(got'[h] \o Deferred(jobs')) =
                         Flat(got[h] \o Deferred(jobs) \o buffer)]_vars
    /\ [](mode # "text" => \A h \in DataHandlers : InOrder(got[h]))

\* The listener was given the first chunk and then taken off: the stream
\* does not flow, though nobody paused it, and holds the second chunk.
C26_Witness ==
    /\ lis["data"] = << >> /\ ~flowing /\ ~paused /\ ~discarded
    /\ Len(got["rec"]) = 1 /\ nw = 2 /\ Len(buffer) = 1
    /\ written = got["rec"] \o buffer

\* One destination piped and unpiped, with or without its end, that fills up
\* and drains before and after it is unpiped.  The program calls no resume()
\* and adds no listener: the destination is the only consumer.
NextUnpipe ==
    \/ Write \/ End \/ PipeWith({"d1"}, BOOLEAN) \/ Unpipe
    \/ DestFill \/ DestDrain \/ DrainUnpiped \/ Tick

SpecUnpipe == InitData /\ [][NextUnpipe]_vars

\* The destination d is not piped before the step nor after it.
StaysUnpiped(d) == ~Piped(d) /\ \A i \in 1..Len(pipes') : pipes'[i].dest # d

\* The step is a 'drain' of the destination d.
Drains(d) == ~dst[d].accept /\ dst'[d].accept

\* The step is unpipe() of the only pipe.
LastUnpiped == pipes # << >> /\ pipes' = << >>

\* The step is a write() on a stream that has not ended.
WriteCall == nw' = nw + 1 /\ ~destroyed /\ ~eof

\* C27: while a destination piped once and unpiped stays unpiped, no step
\* writes to it, and none ends it but pipe() on an ended stream; its 'drain'
\* changes nothing in the source; unpipe() of the only pipe leaves the
\* stream not flowing; and with no pipe, in a program that calls no
\* resume() and adds no listener, the stream stays not flowing and a write
\* is buffered, in sync and async mode.
C27_Unpiped ==
    [][/\ \A d \in Dests :
            /\ StaysUnpiped(d) =>
                /\ dst'[d].got = dst[d].got
                /\ \/ dst'[d].ends = dst[d].ends
                   \/ emittedEnd /\ dst'[d].ends = Append(dst[d].ends, "pipe")
            /\ StaysUnpiped(d) /\ Drains(d) =>
                /\ flowing' = flowing /\ paused' = paused
                /\ buffer' = buffer /\ jobs' = jobs
       /\ LastUnpiped => ~flowing'
       /\ pipes = << >> /\ pipes' = << >> => ~flowing'
       /\ WriteCall /\ pipes = << >> =>
            /\ buffer' = Pushed(written'[Len(written')])
            /\ jobs' = jobs]_vars

\* A stream of a subclass that has a close() method.
InitHook ==
    Constructed /\ hook \in {"quiet", "emits"} /\ watch = {"events", "calls"}

\* A stream with a close() method, written once and destroyed again and
\* again, with and without an error, around data and error listeners and a
\* 'close' event emitted by the program.
NextHook ==
    \/ Writes(MaxFewWrites) \/ DestroyCounted \/ Abort \/ OnData({"rec"})
    \/ OnOther({"error"}) \/ EmitClose \/ Tick

SpecHook == InitHook /\ [][NextHook]_vars

\* The listener calls and the calls of close() and destroy() that this
\* step adds to the record.
NewCalls == SubSeq(hlog', Len(hlog) + 1, Len(hlog'))

\* This step is destroy(er) on a stream already destroyed.
DestroyAgain(er) ==
    /\ destroyed /\ NewCalls # << >>
    /\ NewCalls[1] = [ev |-> "destroy()", h |-> "", via |-> "call", arg |-> er]

\* The calls of close() made so far.
closeCalls == Cardinality({i \in 1..Len(hlog) : hlog[i].ev = "close()"})

\* C28: destroy() on a destroyed stream changes none of destroyed,
\* discarded, buffer, bufferLength and closed, calls no close(), and calls
\* no listener but, when an error is given, the error listeners with that
\* error; close() is called at most once in a behaviour.
C28_DestroyAgain ==
    /\ [][\A er \in {"null", "E1"} : DestroyAgain(er) =>
            /\ destroyed' /\ discarded' = discarded /\ buffer' = buffer
            /\ bufferLength' = bufferLength /\ closed' = closed
            /\ jobs' = jobs /\ lis' = lis
            /\ er = "null" => Len(NewCalls) = 1
            /\ \A i \in 2..Len(NewCalls) :
                 /\ NewCalls[i].ev = "error" /\ NewCalls[i].via = "emit"
                 /\ NewCalls[i].arg = er]_vars
    /\ [](closeCalls <= 1)

\* destroy(er) has been called twice, by a program that added a data
\* listener in between, on a stream whose close() emits nothing and has
\* been called once; the error listener heard both errors.
C28_Witness ==
    /\ hook = "quiet" /\ closeCalls = 1
    /\ destroyed /\ ~discarded /\ ~closed
    /\ Len(hlog) = 6
    /\ hlog[3] = [ev |-> "close()", h |-> "", via |-> "call", arg |-> ""]
    /\ hlog[4].ev = "error" /\ hlog[4].via = "emit"
    /\ hlog[5] = [ev |-> "destroy()", h |-> "", via |-> "call", arg |-> "E1"]
    /\ hlog[6].ev = "error" /\ hlog[6].via = "emit"

\* The end of a stream with end listeners added before end, after it,
\* between the two halves of an async end, and from inside an end listener.
NextEndOnce ==
    \/ Writes(MaxFewWrites) \/ End \/ Pause \/ Resume \/ OnData({"rec"})
    \/ OnOther({"end"}) \/ OnEndAdder \/ Tick

SpecEndOnce == InitEvents /\ [][NextEndOnce]_vars

\* The place in the record of the last registration of the end listener h,
\* 0 when there is none.
LastOn(h) ==
    IF \E i \in 1..Len(hlog) :
          hlog[i].ev = "end" /\ hlog[i].h = h /\ hlog[i].via = "on"
    THEN CHOOSE i \in 1..Len(hlog) :
            /\ hlog[i].ev = "end" /\ hlog[i].h = h /\ hlog[i].via = "on"
            /\ \A j \in (i + 1)..Len(hlog) :
                 ~(hlog[j].ev = "end" /\ hlog[j].h = h /\ hlog[j].via = "on")
    ELSE 0

\* The calls of the end listener h since it was last registered.
EndCalls(h) ==
    Cardinality({i \in (LastOn(h) + 1)..Len(hlog) :
                    /\ hlog[i].ev = "end" /\ hlog[i].h = h
                    /\ hlog[i].via \in {"emit", "replay"}})

\* C29: an end listener registered with on() is called at most once, in
\* sync and async mode, wherever it was registered: before end, after it,
\* between EMITEND and EMITEND2, or from inside an end listener.
C29_EndOnce == [](\A h \in EndHandlers \cup {Adder, Added} : EndCalls(h) <= 1)

\* Chunks written to a stream whose consumers come and go: a data listener
\* added and removed, a pipe, read() and resume(), for a program that keeps
\* a record of the chunks and of what read() returned.
NextLoss ==
    \/ Write \/ Resume \/ Read \/ OnData({"rec"}) \/ OffData
    \/ PipeWith({"d1"}, {TRUE}) \/ Tick

SpecLoss == InitSeen /\ [][NextLoss]_vars

\* The writes whose bytes the stream still holds: buffered, or in a
\* deferred EMITDATA.
HeldWrites == WritesOf(buffer) \cup WritesOf(Deferred(jobs))

\* The chunks that read() returned, in order.
Taken ==
    LET RECURSIVE T(_)
        T(log) == IF log = << >> THEN << >>
                  ELSE (IF Head(log).ev = "read" THEN <<Head(log).arg>>
                        ELSE << >>) \o T(Tail(log))
    IN  T(hlog)

\* The writes of which a data listener, a destination or a caller of read()
\* has been given a byte.
GivenWrites ==
    UNION ({WritesOf(got[h]) : h \in DataHandlers}
           \cup {WritesOf(dst[d].got) : d \in Dests}
           \cup {WritesOf(Taken)})

\* C30: on a stream that is not destroyed, a step loses a chunk that
\* write() accepted (held before the step or written by it, and after the
\* step neither held nor given to a data listener, a destination or a
\* caller of read()) only if it leaves the stream discarding, in sync and
\* async mode (for the modes that pass chunks on as written: bytes and
\* object).
C30_NoLoss ==
    [][(mode # "text" /\ ~destroyed' /\ ~discarded') =>
          (HeldWrites \cup (WritesOf(written') \ WritesOf(written)))
              \subseteq (HeldWrites' \cup GivenWrites')]_vars
====
